---- MODULE Spec2Model ----
(***************************************************************************)
(* FMLtools: the digestion-site counter (count_fml_hits.py) and the region *)
(* counter (region_counts.py).  Both drive genomerator's OperationGenerator*)
(* (a streaming join of two sorted feature streams) with their own match,  *)
(* passed and aggregation callbacks.  The callbacks, the stream            *)
(* construction and the output loops are the FMLtools source; the join     *)
(* engine, the stream adapters and the feature arithmetic belong to the    *)
(* genomerator package and are modelled from the design document.          *)
(*                                                                         *)
(* Features carry genomerator's 1-based inclusive left_pos / right_pos     *)
(* (region_counts.py lines 28-30 and 55); a BED or BAM record carries a    *)
(* 0-based start and an exclusive end.                                     *)
(***************************************************************************)
EXTENDS Integers, Sequences, FiniteSets, TLC

VARIABLES cfg, headA, headB, seenA, seenB, liveA, liveB, out, pairs, status

vars == <<cfg, headA, headB, seenA, seenB, liveA, liveB, out, pairs, status>>

(* ------------------------------ bounds --------------------------------- *)
\* chromosomes in the Reference Catalog: reference ids 0 .. NumRefs-1
NumRefs == 2
\* largest 0-based start of a motif or alignment on the first chromosome
MaxStartDigest == 3
\* largest 0-based start of a region or hit on the first chromosome
MaxStartRegion == 2
\* largest 0-based start on the later, short chromosomes
MaxStartShort == 0
\* records per stream
MaxLen == 2

\* records read from both streams together
MaxTotal == MaxLen + 1

(* ------------------------- program constants --------------------------- *)
DEFAULT_SAME_STRAND_OFFSET == 13
DEFAULT_OPPOSITE_STRAND_OFFSET == 16
DEFAULT_WOBBLE == 1

Max(x, y) == IF x >= y THEN x ELSE y
Abs(x) == IF x >= 0 THEN x ELSE 0 - x

(* --------------------------- small helpers ----------------------------- *)
RECURSIVE SeqSum(_)
SeqSum(s) == IF s = <<>> THEN 0 ELSE Head(s) + SeqSum(Tail(s))

(* ------------------- features and their arithmetic --------------------- *)
\* a BED line or BAM alignment as read: chrom is the position of its name in
\* the Reference Catalog, or NumRefs for a name the catalog does not hold
KnownReference(r) == r.chrom \in 0..(NumRefs - 1)

\* GenomeFeature.from_bed / from_alignedsegment: 0-based half-open record to
\* 1-based inclusive feature
FromRecord(r) ==
    [reference_id |-> r.chrom, left_pos |-> r.start + 1, right_pos |-> r.end,
     is_reverse |-> r.rev, data |-> r.data]

\* f is not after g under the ordering key (reference_id, left_pos)
KeyLeq(f, g) ==
    \/ f.reference_id < g.reference_id
    \/ f.reference_id = g.reference_id /\ f.left_pos <= g.left_pos

\* GenomeFeature.start_pos: the 5' end
start_pos(f) == IF f.is_reverse THEN f.right_pos ELSE f.left_pos

\* motif.start_offset(alignment): bases in the motif's 3' direction from the
\* motif's 5' end to the alignment's 5' end
start_offset(f, g) ==
    IF f.is_reverse THEN start_pos(f) - start_pos(g) ELSE start_pos(g) - start_pos(f)

\* feature.start.shifted_forward(n): the 5' end moved n bases in the feature's
\* own orientation
shifted_forward(f, n) == IF f.is_reverse THEN start_pos(f) - n ELSE start_pos(f) + n

\* position in feature
Contains(f, pos) == f.left_pos <= pos /\ pos <= f.right_pos

\* feature > feature.right + n : the feature lies wholly right of the position
RightOfPos(f, pos) == f.left_pos > pos

\* b - a : the signed gap from a to b, 0 when they overlap
Distance(b, a) ==
    IF b.left_pos > a.right_pos THEN b.left_pos - a.right_pos
    ELSE IF a.left_pos > b.right_pos THEN 0 - (a.left_pos - b.right_pos)
    ELSE 0

(* ----------------- count_fml_hits.py: the digestion policy ------------- *)
\* the match with the wobble's upper end left out
match_digest_open(c, motif, alignment) ==
    \/ /\ motif.is_reverse = alignment.is_reverse
       /\ start_offset(motif, alignment) = c.same_strand_offset
    \/ /\ motif.is_reverse # alignment.is_reverse
       /\ c.opposite_strand_offset <= start_offset(motif, alignment)
       /\ start_offset(motif, alignment) < c.opposite_strand_offset + c.wobble

\* match = lambda motif, alignment (lines 86-95)
match_digest(c, motif, alignment) ==
    \/ /\ motif.is_reverse = alignment.is_reverse
       /\ start_offset(motif, alignment) = c.same_strand_offset
    \/ /\ motif.is_reverse # alignment.is_reverse
       /\ c.opposite_strand_offset <= start_offset(motif, alignment)
       /\ start_offset(motif, alignment) <= c.opposite_strand_offset + c.wobble

\* a_is_passed = lambda motif, alignment (lines 96-97)
a_is_passed_digest(c, motif, alignment) ==
    RightOfPos(alignment,
               motif.right_pos + Max(c.same_strand_offset, c.opposite_strand_offset))

\* b_is_passed = lambda motif, alignment (lines 98-99)
b_is_passed_digest(c, motif, alignment) ==
    RightOfPos(motif,
               alignment.right_pos + Max(c.same_strand_offset, c.opposite_strand_offset))

(* ------------------ region_counts.py: the region policy ---------------- *)
\* match = lambda a,b: b.start.shifted_forward(position) in a (line 43)
match_region(c, a, b) == Contains(a, shifted_forward(b, c.position))

\* the bound taken with its sign
a_is_passed_region_signed(c, a, b) == Distance(b, a) > c.position

\* a_is_passed = lambda a,b: b - a > abs(position) (line 44)
a_is_passed_region(c, a, b) == Distance(b, a) > Abs(c.position)

\* b_is_passed = lambda a,b: a - b > abs(position) (line 45)
b_is_passed_region(c, a, b) == Distance(a, b) > Abs(c.position)

\* int(str), base 10 (line 12).  A string is the sequence of its characters,
\* each character its Unicode code point: "3" is <<51>>, " 7" is <<32, 55>>.
\* int() drops surrounding whitespace, takes one optional sign, then wants
\* decimal digits of any script, single underscores allowed between digits;
\* anything else raises ValueError.

\* the characters int() strips: \t \n \v \f \r, space, NEL, NBSP and the
\* Unicode space separators
Whitespace ==
    (9..13) \cup {32, 133, 160, 5760} \cup (8192..8202)
            \cup {8232, 8233, 8239, 8287, 12288}

\* the digit zero of every decimal script; its nine successors are 1..9
DecimalZeros ==
    {48, 1632, 1776, 1984, 2406, 2534, 2662, 2790, 2918, 3046, 3174, 3302,
     3430, 3558, 3664, 3792, 3872, 4160, 4240, 6112, 6160, 6470, 6608, 6784,
     6800, 6992, 7088, 7232, 7248, 42528, 43216, 43264, 43472, 43504, 43600,
     44016, 65296, 66720, 68912, 69734, 69872, 69942, 70096, 70384, 70736,
     70864, 71248, 71360, 71472, 71904, 72016, 72784, 73040, 73120, 92768,
     92864, 93008, 120782, 120792, 120802, 120812, 120822, 123200, 123632,
     125264, 130032}

IsDigit(ch) == \E z \in DecimalZeros : ch \in z..(z + 9)

DigitVal(ch) == ch - (CHOOSE z \in DecimalZeros : ch \in z..(z + 9))

\* 95 is the underscore
IsUnderscore(ch) == ch = 95

\* 43 is "+", 45 is "-"
IsSign(ch) == ch \in {43, 45}

\* the least member of a non-empty set of integers
MinOf(S) == CHOOSE k \in S : \A j \in S : k <= j

\* s without its leading and trailing whitespace
Strip(s) ==
    LET n == Len(s)
        ks == {k \in 1..n : s[k] \notin Whitespace}
    IN  IF ks = {} THEN <<>>
        ELSE SubSeq(s, MinOf(ks), n + 1 - MinOf({n + 1 - k : k \in ks}))

\* the stripped string without its sign
Unsigned(s) ==
    LET t == Strip(s) IN IF t # <<>> /\ IsSign(Head(t)) THEN Tail(t) ELSE t

\* digits, with single underscores only between two digits
WellFormed(d) ==
    /\ d # <<>>
    /\ IsDigit(d[1])
    /\ IsDigit(d[Len(d)])
    /\ \A k \in 1..Len(d) : IsDigit(d[k]) \/ IsUnderscore(d[k])
    /\ \A k \in 1..(Len(d) - 1) : ~ (IsUnderscore(d[k]) /\ IsUnderscore(d[k + 1]))

\* d from its first digit that is not a zero: leading zeros add nothing
Significant(d) ==
    LET nz == {k \in 1..Len(d) : IsDigit(d[k]) /\ DigitVal(d[k]) # 0}
    IN  IF nz = {} THEN <<>> ELSE SubSeq(d, MinOf(nz), Len(d))

RECURSIVE Horner(_)
Horner(d) ==
    IF d = <<>> THEN 0
    ELSE IF IsUnderscore(d[Len(d)]) THEN Horner(SubSeq(d, 1, Len(d) - 1))
    ELSE 10 * Horner(SubSeq(d, 1, Len(d) - 1)) + DigitVal(d[Len(d)])

\* the number the digits spell
DigitsVal(d) == Horner(Significant(d))

\* sys.int_max_str_digits, the interpreter's default (CPython 3.11 and the
\* patched earlier releases): int() refuses a decimal string of more digits
int_max_str_digits == 4300

\* the digits of the string: underscores, sign and whitespace are not counted,
\* leading zeros are
NumDigits(d) == Len(SelectSeq(d, IsDigit))

\* int() raises ValueError: the string is no number, or has too many digits
int_raises(s) ==
    \/ ~ WellFormed(Unsigned(s))
    \/ NumDigits(Unsigned(s)) > int_max_str_digits

int(s) ==
    LET t == Strip(s)
    IN  IF t # <<>> /\ Head(t) = 45 THEN 0 - DigitsVal(Unsigned(s))
        ELSE DigitsVal(Unsigned(s))

\* feature.data[3] of a hit read with parse = False: the fourth column of the
\* line; a line of three columns has none (IndexError)
HasColumn4(feature) == Len(feature.data) >= 4

\* increment_count (lines 10-15): the amount added to the region's count
this_count(feature) == IF int_raises(feature.data[4]) THEN 1 ELSE int(feature.data[4])

\* increment_count escapes with an exception other than ValueError
increment_raises(feature) == ~ HasColumn4(feature)

(* ------------------------- policy of the run --------------------------- *)
match(c, a, b) ==
    IF c.tool = "digest" THEN match_digest(c, a, b) ELSE match_region(c, a, b)

a_is_passed(c, a, b) ==
    IF c.tool = "digest" THEN a_is_passed_digest(c, a, b) ELSE a_is_passed_region(c, a, b)

b_is_passed(c, a, b) ==
    IF c.tool = "digest" THEN b_is_passed_digest(c, a, b) ELSE b_is_passed_region(c, a, b)

\* operate: the default (count one more) for motifs, increment_count for regions
operate_raises(c, b) == c.tool = "region" /\ increment_raises(b)

operate_amount(c, b) == IF c.tool = "digest" THEN 1 ELSE this_count(b)

\* assert_sorted of the stream: SamStream line 75, BedStream lines 37 and 38;
\* the motif BedStream of lines 78-81 is built without it
assert_sorted(c, side) == IF c.tool = "digest" THEN side = "b" ELSE TRUE

\* every yielded feature written
is_written_always(zeroes, count) == TRUE

\* the output loops: `if zeroes or motif_count.data > 0` (count_fml_hits.py
\* line 107), `if zeroes or region.data['count'] > 0` (region_counts.py line 51)
is_written(zeroes, count) == zeroes \/ count > 0

(* ----------------------- the interval join engine ---------------------- *)
\* positions compared across references
MatchesAnyReference(c, a, b) == match(c, a, b)

\* features on different references never match
Matches(c, a, b) == a.reference_id = b.reference_id /\ match(c, a, b)

\* a live candidate is released by the other stream's cursor: its reference
\* is behind the cursor's, or its passed predicate holds
AReleased(c, a, b) ==
    \/ a.reference_id < b.reference_id
    \/ a.reference_id = b.reference_id /\ a_is_passed(c, a, b)

BReleased(c, a, b) ==
    \/ b.reference_id < a.reference_id
    \/ a.reference_id = b.reference_id /\ b_is_passed(c, a, b)

\* a stream that does not look its chromosome names up
AdmitUnlisted(c, side, prev, rd) ==
    IF rd = <<>> THEN "run"
    ELSE IF /\ assert_sorted(c, side)
            /\ prev # <<>>
            /\ ~ KeyLeq(FromRecord(prev[1]), FromRecord(rd[1])) THEN "out_of_order"
    ELSE "run"

\* BedStream / SamStream reading a record after prev (<<>> at the start):
\* the status the read leaves the run in
Admit(c, side, prev, rd) ==
    IF rd = <<>> THEN "run"
    ELSE IF ~ KnownReference(rd[1]) THEN "unknown_reference"
    ELSE IF /\ assert_sorted(c, side)
            /\ prev # <<>>
            /\ ~ KeyLeq(FromRecord(prev[1]), FromRecord(rd[1])) THEN "out_of_order"
    ELSE "run"

\* the lines the output loop has written for the features yielded so far,
\* under either setting of the include-zeroes flag
Lines(zeroes, ys) == SelectSeq(ys, LAMBDA y : is_written(zeroes, y.count))

\* The A features not yet yielded are held in arrival order.  One the B
\* cursor has passed leaves the live set: it is marked, matches nothing
\* further, and its aggregate is final (step 3).  The engine yields in the
\* original relative order (its contract), so a marked feature goes
\* downstream once every feature that arrived before it has gone.
MarkPassed(c, la, sa, b) ==
    [k \in 1..Len(la) |->
       [la[k] EXCEPT !.passed = @ \/ AReleased(c, sa[la[k].id], b)]]

\* how many features at the front of the queue are marked
LeadingPassed(m) ==
    CHOOSE n \in 0..Len(m) :
       /\ \A k \in 1..n : m[k].passed
       /\ n < Len(m) => ~ m[n + 1].passed

\* every marked feature yielded at once, wherever it stands in the queue
ReleasedAnywhere(c, la, sa, b) ==
    SelectSeq(MarkPassed(c, la, sa, b), LAMBDA x : x.passed)

\* the features a B cursor sends downstream: the marked front of the queue
ReleasedBy(c, la, sa, b) ==
    LET m == MarkPassed(c, la, sa, b) IN SubSeq(m, 1, LeadingPassed(m))

\* the features that stay in the queue
KeptAfter(c, la, sa, b) ==
    LET r == ReleasedBy(c, la, sa, b)
    IN  SelectSeq(MarkPassed(c, la, sa, b),
                  LAMBDA x : \A k \in 1..Len(r) : r[k].id # x.id)

\* a feature as it goes downstream: the driven-side feature and its aggregate
Yielded(q) == [k \in 1..Len(q) |-> [id |-> q[k].id, count |-> q[k].count]]

\* What the output loop has been handed when a read ends the step.  A read
\* that fails aborts the run; whether the engine reads the next record before
\* or after it yields the features of the step is not fixed, so either the
\* features of the step have been written or they have not.
OutAfter(st, written, step) ==
    IF st = "run" THEN {written \o step} ELSE {written, written \o step}

(* --------------------------- inputs of a run --------------------------- *)
\* the columns of a hit line: three coordinates, then at most a fourth column
\* as text: "x", "3", " 2" with its newline, "2_" and "+1_" with an
\* Arabic-Indic zero
Columns == {<<"chrom", "start", "end">>,
            <<"chrom", "start", "end", <<120>>>>,
            <<"chrom", "start", "end", <<51>>>>,
            <<"chrom", "start", "end", <<32, 50, 10>>>>,
            <<"chrom", "start", "end", <<50, 95>>>>,
            <<"chrom", "start", "end", <<43, 49, 95, 1632>>>>}

NoColumns == <<"chrom", "start", "end">>

\* a fourth column of one digit more than int() takes: "7" after zeros
TooManyDigits == [k \in 1..(int_max_str_digits + 1) |-> IF k > int_max_str_digits THEN 55 ELSE 48]

Rec(ch, st, w, rv, d) == [chrom |-> ch, start |-> st, end |-> st + w, rev |-> rv, data |-> d]

\* a BED line naming a chromosome the catalog does not hold; the line is
\* rejected on its name, whatever its other columns
Unlisted == Rec(NumRefs, 0, 1, FALSE, NoColumns)

\* the option settings explored: scaled-down offsets on short chromosomes
\* ("small"), and the documented settings on the documented coordinates
\* ("example")
Configs ==
    {[tool |-> "digest", profile |-> "small", same_strand_offset |-> so[1],
      opposite_strand_offset |-> so[2], wobble |-> so[3], position |-> 0]
        : so \in {<<1, 2, 1>>, <<2, 1, 2>>}}
    \cup
    {[tool |-> "digest", profile |-> "example", same_strand_offset |-> so[1],
      opposite_strand_offset |-> so[2], wobble |-> so[3], position |-> 0]
        : so \in {<<DEFAULT_SAME_STRAND_OFFSET, DEFAULT_OPPOSITE_STRAND_OFFSET, DEFAULT_WOBBLE>>,
                  <<14, 17, 1>>}}
    \cup
    {[tool |-> "region", profile |-> "small", same_strand_offset |-> 0,
      opposite_strand_offset |-> 0, wobble |-> 0, position |-> p]
        : p \in {-1, 0, 1}}
    \cup
    {[tool |-> "region", profile |-> "example", same_strand_offset |-> 0,
      opposite_strand_offset |-> 0, wobble |-> 0, position |-> 0]}

\* the 0-based starts a chromosome of the catalog has room for
Starts(c, ch) ==
    IF ch > 0 THEN 0..MaxStartShort
    ELSE IF c.tool = "digest" THEN 0..MaxStartDigest ELSE 0..MaxStartRegion

\* the records of the "small" profile: every known chromosome, every start it
\* has room for, the given widths, strands and columns
Records(c, widths, strands, columns) ==
    UNION {{Rec(ch, st, w, rv, d) :
              st \in Starts(c, ch), w \in widths, rv \in strands, d \in columns}
           : ch \in 0..(NumRefs - 1)}

\* motifs (digest) or regions (region)
RecordsA(c) ==
    IF c.profile = "example"
    THEN IF c.tool = "digest"
         THEN {Rec(0, 100, 6, rv, NoColumns) : rv \in BOOLEAN}
         ELSE {Rec(0, 1000, 10, FALSE, NoColumns)}
    ELSE IF c.tool = "digest"
         THEN Records(c, {1, 3}, BOOLEAN, {NoColumns}) \cup {Unlisted}
         ELSE Records(c, {1, 3}, {FALSE}, {NoColumns}) \cup {Unlisted}

\* alignments (digest) or hits (region)
RecordsB(c) ==
    IF c.profile = "example"
    THEN IF c.tool = "digest"
         THEN {Rec(0, st, w, rv, NoColumns) :
                 st \in (86..94) \cup (111..119) \cup {130}, w \in {1, 2}, rv \in BOOLEAN}
         ELSE {Rec(0, st, 1, rv, <<"chrom", "start", "end", <<53>>>>) :
                 st \in {999, 1000, 1002, 1009, 1010, 1015}, rv \in BOOLEAN}
              \cup {Rec(0, 1005, 1, FALSE, <<"chrom", "start", "end", TooManyDigits>>)}
    ELSE IF c.tool = "digest"
         THEN Records(c, {1, 2}, BOOLEAN, {NoColumns})
         ELSE Records(c, {1, 2}, BOOLEAN, Columns) \cup {Unlisted}

LenBound(c) == IF c.profile = "example" THEN 1 ELSE MaxLen
TotalBound(c) == IF c.profile = "example" THEN 2 ELSE MaxTotal

\* what a stream can deliver next: its end, one more record, or, after as
\* many records as the bounds allow, a record of an unlisted chromosome
Reads(c, recs, nstream, ntotal) ==
    {<<>>} \cup (IF nstream < LenBound(c) /\ ntotal < TotalBound(c)
                 THEN {<<r>> : r \in recs}
                 ELSE {<<r>> : r \in recs \cap {Unlisted}})

NRead == Len(seenA) + Len(headA) + Len(seenB) + Len(headB)

(* ------------------------------ the run -------------------------------- *)
Init ==
    /\ cfg \in Configs
    /\ headA = <<>> /\ headB = <<>>
    /\ seenA = <<>> /\ seenB = <<>>
    /\ liveA = <<>> /\ liveB = <<>>
    /\ out = <<>>
    /\ pairs = <<>>
    /\ status = "init"

\* the engine reads the first record of each stream
Start ==
    /\ status = "init"
    /\ \E ra \in Reads(cfg, RecordsA(cfg), 0, 0) :
         \E rb \in Reads(cfg, RecordsB(cfg), 0, Len(ra)) :
            /\ headA' = ra
            /\ headB' = rb
            /\ status' = IF Admit(cfg, "a", <<>>, ra) # "run"
                         THEN Admit(cfg, "a", <<>>, ra)
                         ELSE Admit(cfg, "b", <<>>, rb)
    /\ UNCHANGED <<cfg, seenA, seenB, liveA, liveB, out, pairs>>

\* stream A is behind (or B is exhausted): its head joins the live A set,
\* after matching the live B candidates; it releases the B candidates it has
\* passed; the stream is read again.  An exception escaping the aggregation
\* callback ends the run where it stands
AdvanceA ==
    /\ status = "run"
    /\ headA # <<>>
    /\ IF headB = <<>> THEN TRUE ELSE KeyLeq(FromRecord(headA[1]), FromRecord(headB[1]))
    /\ LET a == FromRecord(headA[1])
           id == Len(seenA) + 1
           hits == SelectSeq(liveB, LAMBDA j : Matches(cfg, a, seenB[j]))
           raises == \E k \in 1..Len(hits) : operate_raises(cfg, seenB[hits[k]])
           count == SeqSum([k \in 1..Len(hits) |-> operate_amount(cfg, seenB[hits[k]])])
           la == Append(liveA, [id |-> id, count |-> count, passed |-> FALSE])
           lb == SelectSeq(liveB, LAMBDA j : ~ BReleased(cfg, a, seenB[j]))
           emit == IF headB = <<>> THEN Yielded(la) ELSE <<>>
       IN  IF raises
           THEN /\ status' = "index_error"
                /\ UNCHANGED <<headA, seenA, liveA, liveB, out, pairs>>
           ELSE    /\ seenA' = Append(seenA, a)
                   /\ pairs' = pairs \o [k \in 1..Len(hits) |-> <<id, hits[k]>>]
                   /\ liveA' = IF headB = <<>> THEN <<>> ELSE la
                   /\ \E nxt \in Reads(cfg, RecordsA(cfg), Len(seenA) + 1, NRead) :
                        /\ status' = Admit(cfg, "a", headA, nxt)
                        /\ headA' = nxt
                        /\ liveB' = IF nxt = <<>> THEN <<>> ELSE lb
                        /\ out' \in OutAfter(Admit(cfg, "a", headA, nxt), out, emit)
    /\ UNCHANGED <<cfg, headB, seenB>>

\* stream B is behind (or A is exhausted): its head is aggregated into every
\* live A candidate it matches and joins the live B set; the A candidates it
\* has passed leave the live set and are yielded in arrival order; the
\* stream is read again
AdvanceB ==
    /\ status = "run"
    /\ headB # <<>>
    /\ IF headA = <<>> THEN TRUE ELSE KeyLeq(FromRecord(headB[1]), FromRecord(headA[1]))
    /\ LET b == FromRecord(headB[1])
           jd == Len(seenB) + 1
           hit(x) == ~ x.passed /\ Matches(cfg, seenA[x.id], b)
           hits == SelectSeq(liveA, hit)
           raises == hits # <<>> /\ operate_raises(cfg, b)
           la == [k \in 1..Len(liveA) |->
                    IF hit(liveA[k])
                    THEN [liveA[k] EXCEPT !.count = @ + operate_amount(cfg, b)]
                    ELSE liveA[k]]
           released == ReleasedBy(cfg, la, seenA, b)
           kept == KeptAfter(cfg, la, seenA, b)
       IN  IF raises
           THEN /\ status' = "index_error"
                /\ UNCHANGED <<headB, seenB, liveA, liveB, out, pairs>>
           ELSE    /\ seenB' = Append(seenB, b)
                   /\ pairs' = pairs \o [k \in 1..Len(hits) |-> <<hits[k].id, jd>>]
                   /\ liveB' = IF headA = <<>> THEN <<>> ELSE Append(liveB, jd)
                   /\ \E nxt \in Reads(cfg, RecordsB(cfg), Len(seenB) + 1, NRead) :
                        /\ status' = Admit(cfg, "b", headB, nxt)
                        /\ headB' = nxt
                        /\ liveA' = IF nxt = <<>> THEN <<>> ELSE kept
                        /\ out' \in OutAfter(Admit(cfg, "b", headB, nxt), out,
                                              IF nxt = <<>> THEN Yielded(released \o kept)
                                              ELSE Yielded(released))
    /\ UNCHANGED <<cfg, headA, seenA>>

\* both streams are exhausted: the generator stops
Finish ==
    /\ status = "run"
    /\ headA = <<>> /\ headB = <<>>
    /\ status' = "done"
    /\ UNCHANGED <<cfg, headA, headB, seenA, seenB, liveA, liveB, out, pairs>>

Next == Start \/ AdvanceA \/ AdvanceB \/ Finish

Spec == Init /\ [][Next]_vars

(* ------------------------ what a run has read -------------------------- *)
\* the features a stream has delivered: those joined, then the one waiting
ReadFrom(seen, head) ==
    seen \o (IF head # <<>> /\ KnownReference(head[1]) THEN <<FromRecord(head[1])>> ELSE <<>>)

ReadA == ReadFrom(seenA, headA)
ReadB == ReadFrom(seenB, headB)

Sorted(fs) == \A k \in 1..(Len(fs) - 1) : KeyLeq(fs[k], fs[k + 1])

AllListed ==
    /\ headA # <<>> => KnownReference(headA[1])
    /\ headB # <<>> => KnownReference(headB[1])

\* both inputs are sorted streams of records on catalogued chromosomes
InputsValid == AllListed /\ Sorted(ReadA) /\ Sorted(ReadB)

Emitted == {out[k].id : k \in 1..Len(out)}

\* 0-based coordinates of a feature, as its BED line gives them
Left0(f) == f.left_pos - 1
End0(f) == f.right_pos
FivePrime0(f) == IF f.is_reverse THEN f.right_pos - 1 ELSE f.left_pos - 1

Stopped == status \notin {"init", "run"}

(* ------------------------------ C1 ------------------------------------- *)
\* the offset of the alignment's 5' end from the motif's 5' end, counted
\* towards the motif's 3' end, on 0-based coordinates
Offset0(motif, alignment) ==
    IF motif.is_reverse THEN FivePrime0(motif) - FivePrime0(alignment)
    ELSE FivePrime0(alignment) - FivePrime0(motif)

ShouldMatch(c, motif, alignment) ==
    IF motif.is_reverse = alignment.is_reverse
    THEN Offset0(motif, alignment) = c.same_strand_offset
    ELSE Offset0(motif, alignment) \in
           c.opposite_strand_offset..(c.opposite_strand_offset + c.wobble)

IsDefaults(c) ==
    /\ c.tool = "digest"
    /\ c.same_strand_offset = 13 /\ c.opposite_strand_offset = 16 /\ c.wobble = 1

\* the motif (chr1, 100, 106, +) with one alignment, after the run
ExampleRun(rv, five) ==
    /\ status = "done" /\ IsDefaults(cfg)
    /\ Len(seenA) = 1 /\ Len(seenB) = 1
    /\ Left0(seenA[1]) = 100 /\ End0(seenA[1]) = 106 /\ ~ seenA[1].is_reverse
    /\ seenB[1].is_reverse = rv /\ FivePrime0(seenB[1]) = five

\* C1: in the digestion counter a motif and an alignment on one reference
\* match exactly when they share a strand and the alignment's 5' end lies
\* same_strand_offset bases 3' of the motif's 5' end, or they are on opposite
\* strands and that offset lies in [opposite_strand_offset,
\* opposite_strand_offset + wobble]: every pair the join aggregates has such
\* an offset, a run of one motif and one alignment counts 1 exactly for such a
\* pair, and with 13/16/1 the motif (chr1, 100, 106, +) counts a same-strand
\* alignment at 113 but not at 130, an opposite-strand one at 116 or 117 but
\* not at 118.
C1_MatchOffsets ==
    cfg.tool = "digest" =>
      /\ \A k \in 1..Len(pairs) :
           ShouldMatch(cfg, seenA[pairs[k][1]], seenB[pairs[k][2]])
      /\ \A i \in 1..Len(seenA), j \in 1..Len(seenB) :
           seenA[i].reference_id = seenB[j].reference_id =>
             (match(cfg, seenA[i], seenB[j]) <=> ShouldMatch(cfg, seenA[i], seenB[j]))
      /\ (status = "done" /\ Len(seenA) = 1 /\ Len(seenB) = 1
            /\ seenA[1].reference_id = seenB[1].reference_id) =>
           out = <<[id |-> 1,
                    count |-> IF ShouldMatch(cfg, seenA[1], seenB[1]) THEN 1 ELSE 0]>>
      /\ ExampleRun(FALSE, 113) => out[1].count = 1
      /\ ExampleRun(FALSE, 130) => out[1].count = 0
      /\ ExampleRun(TRUE, 116) => out[1].count = 1
      /\ ExampleRun(TRUE, 117) => out[1].count = 1
      /\ ExampleRun(TRUE, 118) => out[1].count = 0

C1_Witness == ExampleRun(TRUE, 117) /\ out[1].count = 1

(* ------------------------------ C2 ------------------------------------- *)
\* the 0-based position at which a hit is counted
Counted0(b, p) == IF b.is_reverse THEN FivePrime0(b) - p ELSE FivePrime0(b) + p

\* that position lies in the region's half-open interval [left, right)
InRegion0(a, b, p) ==
    /\ a.reference_id = b.reference_id
    /\ Left0(a) <= Counted0(b, p)
    /\ Counted0(b, p) < End0(a)

\* the weight of a hit: its fourth column when that is an integer, else 1
Weight(b) == IF HasColumn4(b) /\ ~ int_raises(b.data[4]) THEN int(b.data[4]) ELSE 1

\* the count held for A feature id: the weights of the features of B
\* aggregated into it (1 each in the digestion counter, whose alignments have
\* no fourth column)
Aggregated(id) ==
    SeqSum([k \in 1..Len(pairs) |->
              IF pairs[k][1] = id THEN Weight(seenB[pairs[k][2]]) ELSE 0])

\* the sum of the weights of the hits read that fall in region a
RegionTotal(a) ==
    SeqSum([j \in 1..Len(ReadB) |->
              IF InRegion0(a, ReadB[j], cfg.position) THEN Weight(ReadB[j]) ELSE 0])

\* the region chr1:1000-1010 with one forward hit at the given start
RegionExample(st) ==
    /\ status = "done" /\ cfg.tool = "region" /\ cfg.profile = "example"
    /\ Len(seenA) = 1 /\ Len(seenB) = 1
    /\ ~ seenB[1].is_reverse /\ Left0(seenB[1]) = st

\* C2: in the region counter, for sorted streams and every position offset,
\* the count a region is yielded with is the sum of the weights of exactly
\* the hits of the whole hit stream whose start, shifted forward by the
\* offset in the hit's own orientation, lies in the region's [left, right);
\* chr1:1000-1010 with offset 0 gains 5 from a hit at 1002 with score 5 and
\* nothing from a hit at 1015.
C2_RegionCount ==
    (cfg.tool = "region" /\ InputsValid) =>
      /\ \A k \in 1..Len(out) : out[k].count = RegionTotal(seenA[out[k].id])
      /\ RegionExample(1002) => out[1].count = 5
      /\ RegionExample(1015) => out[1].count = 0

C2_Witness ==
    /\ cfg.tool = "region" /\ cfg.position = -1 /\ status = "done" /\ InputsValid
    /\ Len(seenB) = 2 /\ seenB[1].is_reverse # seenB[2].is_reverse
    /\ \E k \in 1..Len(out) : out[k].count = 4

PairMatches(a, b) ==
    /\ a.reference_id = b.reference_id
    /\ IF cfg.tool = "digest" THEN ShouldMatch(cfg, a, b) ELSE InRegion0(a, b, cfg.position)

\* the number, or weighted sum, of the features read from B that match a
MatchTotal(a) ==
    SeqSum([j \in 1..Len(ReadB) |->
              IF PairMatches(a, ReadB[j])
              THEN (IF cfg.tool = "digest" THEN 1 ELSE Weight(ReadB[j]))
              ELSE 0])

\* C4: no driven-side feature is yielded twice and no pair is aggregated
\* twice, so a yielded count never exceeds the number (weighted sum) of the
\* other stream's features that match it; when no pair matches every yielded
\* count is 0; a zero count is written only under the include-zeroes flag.
C4_NoDoubleCounting ==
    /\ \A k, l \in 1..Len(out) : k < l => out[k].id # out[l].id
    /\ \A k, l \in 1..Len(pairs) : k < l => pairs[k] # pairs[l]
    /\ \A k \in 1..Len(out) : out[k].count <= MatchTotal(seenA[out[k].id])
    /\ (\A i \in 1..Len(ReadA), j \in 1..Len(ReadB) : ~ PairMatches(ReadA[i], ReadB[j]))
         => \A k \in 1..Len(out) : out[k].count = 0
    /\ \A k \in 1..Len(Lines(FALSE, out)) : Lines(FALSE, out)[k].count > 0
    /\ Lines(TRUE, out) = out

C4_Witness ==
    /\ status = "done"
    /\ \E k \in 1..Len(out) : out[k].count = 0
    /\ \E k \in 1..Len(out) : out[k].count > 0
    /\ Len(Lines(FALSE, out)) = 1 /\ Len(Lines(TRUE, out)) = 2

(* ------------------------------ C5 ------------------------------------- *)
\* C5: features on different references never contribute to each other's
\* aggregate, whatever their positions; and once a cursor is on a new
\* reference no candidate of an earlier reference is still live.
C5_CrossReference ==
    /\ \A k \in 1..Len(pairs) :
         seenA[pairs[k][1]].reference_id = seenB[pairs[k][2]].reference_id
    /\ InputsValid =>
         /\ seenB # <<>> =>
              \A k \in 1..Len(liveA) :
                 seenA[liveA[k].id].reference_id >= seenB[Len(seenB)].reference_id
         /\ seenA # <<>> =>
              \A k \in 1..Len(liveB) :
                 seenB[liveB[k]].reference_id >= seenA[Len(seenA)].reference_id

\* a feature of reference 0 was yielded with count 0 although a feature of a
\* later reference sits at a matching position and had not passed it
C5_Witness ==
    /\ InputsValid /\ status = "done" /\ pairs = <<>>
    /\ \E k \in 1..Len(out), j \in 1..Len(seenB) :
         /\ seenA[out[k].id].reference_id < seenB[j].reference_id
         /\ match(cfg, seenA[out[k].id], seenB[j])
         /\ ~ a_is_passed(cfg, seenA[out[k].id], seenB[j])
         /\ out[k].count = 0

(* ------------------------------ C6 ------------------------------------- *)
\* C6 as stated: a record naming a chromosome absent from the catalog fails
\* the run before any output line has been written.
C6_FailsBeforeOutput == status = "unknown_reference" => Lines(TRUE, out) = <<>>

\* C6 as amended: the run fails with an unknown-reference error as soon as
\* the record naming the absent chromosome is read from its stream, and that
\* record is never joined; features yielded before it was read may have been
\* written, each once and with its final count.
C6_FailsWhenRead ==
    /\ status = "unknown_reference" <=> ~ AllListed
    /\ status = "unknown_reference" =>
         /\ \A k, l \in 1..Len(out) : k < l => out[k].id # out[l].id
         /\ \A k \in 1..Len(out) : out[k].count = Aggregated(out[k].id)
    /\ \A i \in 1..Len(seenA) : seenA[i].reference_id \in 0..(NumRefs - 1)
    /\ \A j \in 1..Len(seenB) : seenB[j].reference_id \in 0..(NumRefs - 1)

\* the first feature of A was passed by the first of B and yielded in that
\* step, whose read delivered a listed record; the unlisted record was read
\* in a later step
C6_Witness ==
    /\ status = "unknown_reference" /\ headB # <<>> /\ ~ KnownReference(headB[1])
    /\ Len(seenB) >= 2
    /\ out # <<>> /\ out[1].id = 1
    /\ AReleased(cfg, seenA[1], seenB[1])

(* ------------------------------ C7 ------------------------------------- *)
\* C7: in both tools each of the two streams is checked for non-decreasing
\* (reference_id, left) order, and the run never goes on with a stream that
\* has delivered an element smaller than its predecessor.
C7_StreamsValidated == status \in {"run", "done"} => Sorted(ReadA) /\ Sorted(ReadB)

(* ------------------------------ C8 ------------------------------------- *)
\* the counts follow the weights of the hits joined
C8_ParsedScores ==
    cfg.tool = "region" =>
      /\ \A k \in 1..Len(liveA) : liveA[k].count = Aggregated(liveA[k].id)
      /\ \A k \in 1..Len(out) : out[k].count = Aggregated(out[k].id)

\* C8: in the region counter a matching hit whose score is missing or is not
\* a number adds exactly 1 and does not abort the run; a numeric score adds
\* that integer.
C8_MissingScoreCountsOne ==
    cfg.tool = "region" =>
      /\ status # "index_error"
      /\ C8_ParsedScores
      /\ \A j \in 1..Len(seenB) :
            HasColumn4(seenB[j]) /\ WellFormed(Unsigned(seenB[j].data[4]))
              => ~ int_raises(seenB[j].data[4])

(* ------------------------------ C9 ------------------------------------- *)
\* C9: for sorted streams the digestion counter's passed predicates are
\* sound: once a motif is passed by an alignment no later alignment matches
\* it, once an alignment is passed by a motif no later motif matches it, and
\* so a yielded motif's count is the number of alignments that match it.
C9_PassedSound ==
    (cfg.tool = "digest" /\ InputsValid) =>
      /\ \A i \in 1..Len(ReadA), j, k \in 1..Len(ReadB) :
           (/\ j < k
            /\ ReadA[i].reference_id = ReadB[j].reference_id
            /\ a_is_passed(cfg, ReadA[i], ReadB[j]))
             => ~ PairMatches(ReadA[i], ReadB[k])
      /\ \A j \in 1..Len(ReadB), i, l \in 1..Len(ReadA) :
           (/\ i < l
            /\ ReadA[i].reference_id = ReadB[j].reference_id
            /\ b_is_passed(cfg, ReadA[i], ReadB[j]))
             => ~ PairMatches(ReadA[l], ReadB[j])
      /\ \A k \in 1..Len(out) : out[k].count = MatchTotal(seenA[out[k].id])

(* ------------------------------ C10 ------------------------------------ *)
\* the generator has stopped with nothing left over
CleanEnd ==
    /\ headA = <<>> /\ headB = <<>>
    /\ liveA = <<>> /\ liveB = <<>>
    /\ Emitted = 1..Len(seenA)

\* C10: for sorted inputs the join stops only with both streams exhausted,
\* both live sets empty and every driven-side feature that entered it
\* yielded.
C10_TerminatesClean == (InputsValid /\ Stopped) => (status = "done" /\ CleanEnd)

\* a run that reaches the end of the generator ends clean
C10_DoneIsClean == status = "done" => CleanEnd

====
